---- MODULE Spec2Model ----
(***************************************************************************)
(* Model of the extended BF interpreter of cibi (src/cibi/bf.py): the      *)
(* jump-table builder buildbracemap and the Executable machine (init,      *)
(* step, execute, input, act, done) with its ActionSampler, and the        *)
(* language helpers of make_bf_plus (char_to_int, int_to_char, prune).     *)
(* Positions are 0-based as in the source;                                 *)
(* sequences are 1-based, so code[codeptr + 1] is the source's             *)
(* code[codeptr] and cells[cellptr + 1] the source's cells[cellptr].       *)
(***************************************************************************)
EXTENDS Integers, Sequences, FiniteSets, TLC

VARIABLES
  code,                    \* self.code
  require_correct_syntax,  \* constructor argument
  cycle,                   \* self.cycle
  max_steps,               \* self.max_steps (NoSteps stands for None)
  init_memory,             \* self.init_memory (<<>> stands for None and [])
  debug,                   \* self.debug
  null_value,              \* self.null_value
  bracemap,                \* self.bracemap
  is_valid,                \* self.is_valid
  action_space,            \* the gym space given to ActionSampler
  default_action,          \* ActionSampler's default_action argument
  sampler,                 \* self.action_sampler
  codeptr, cellptr, steps, cells, action_stack, state, result,
  program_trace,           \* self.program_trace (<<>> stands for None and [])
  pc,                      \* where the running call stands
  inp,                     \* the discretized observation of the running input()
  raised,                  \* the exception the last call ended with
  details,                 \* ActionError.details of that exception
  last_call,               \* the call made last
  action,                  \* what the last call returned, when it was act()
  allowed_commands,        \* make_bf_plus's argument
  program,                 \* a program text given to the language helpers
  code_indices,            \* what char_to_int returned
  decoded,                 \* what int_to_char returned
  old_code, new_code,      \* the locals of a running prune()
  pruned,                  \* what prune returned
  lang_pc,                 \* how far the language helpers have been applied
  gym_pc,                  \* where a running attend_gym() stands
  max_reps,                \* attend_gym's max_reps argument
  reps,                    \* the iterations of its loop begun so far
  observation,             \* its local observation (<<>> before env.reset())
  render,                  \* its local render
  run,                     \* which of two instances run alike is running
  calls,                   \* the calls made on the first of them
  seen,                    \* what the first showed after each of them
  replayed                 \* how many of these calls the second has had

config == <<code, require_correct_syntax, cycle, max_steps, init_memory,
            debug, null_value, bracemap, is_valid, action_space,
            default_action, sampler>>
machine == <<codeptr, cellptr, steps, cells, action_stack, state, result,
             program_trace>>
control == <<pc, inp, raised, details, last_call, action>>
language == <<allowed_commands, program, code_indices, decoded, old_code,
              new_code, pruned, lang_pc>>
episode == <<gym_pc, max_reps, reps, observation, render>>
replay == <<run, calls, seen, replayed>>
callers == <<episode, replay>>
vars == <<config, machine, control, language, callers>>

-----------------------------------------------------------------------------
(* Bounds of the model *)
MaxCodeLen == 3
MaxVal == 2
MaxCellPtr == 2
MaxStack == 3
MaxTextLen == 4
MaxTrace == 3

(* Program constants *)
DEFAULT_STEPS == 5

SUCCESS == "success"
STEP_LIMIT == "step-limit"
SYNTAX_ERROR == "syntax-error"
KILLED == "killed"
None == "None"

NOT_STARTED == "not-started"
EXECUTING == "executing"
AWAITING_INPUT == "awaiting-input"
FINISHED == "finished"

NoSteps == -1

DIGITS == <<"0", "1", "2", "3", "4", "5", "6", "7", "8", "9">>
LETTERS == <<"a", "b", "c", "d", "e", "f", "g", "h", "i", "j", "k", "l", "m",
             "n", "o", "p", "q", "r", "s", "t", "u", "v", "w", "x", "y", "z">>
DEFAULT_CMD_SET == <<"@", ">", "<", "^", "+", "-", "[", "]", ".", ",", "!", "~",
                     "0", "1", "2", "3", "4", "a", "b", "c", "d", "e">>
BF_EOS_CHAR == "_"

Range(s) == {s[i] : i \in DOMAIN s}

\* str.index: the 0-based position of c in s
index(s, c) == (CHOOSE i \in DOMAIN s : s[i] = c) - 1

\* language['alphabet'] of make_bf_plus()
alphabet == {BF_EOS_CHAR} \cup Range(DEFAULT_CMD_SET)

-----------------------------------------------------------------------------
(* buildbracemap *)

open_brace(acc, position) ==
  [acc EXCEPT !.bracestack = Append(acc.bracestack, position)]

unmatched_close(acc, position) ==
  [acc EXCEPT !.bracemap = (position :> position) @@ acc.bracemap,
              !.correct_syntax = FALSE]

\* variant: the closing brace is not linked back to its opening brace
matched_close_one_way(acc, position) ==
  LET n == Len(acc.bracestack)
      start == acc.bracestack[n]
  IN [acc EXCEPT !.bracestack = SubSeq(acc.bracestack, 1, n - 1),
                 !.bracemap = (position :> position) @@ (start :> position) @@ acc.bracemap]

matched_close(acc, position) ==
  LET n == Len(acc.bracestack)
      start == acc.bracestack[n]
  IN [acc EXCEPT !.bracestack = SubSeq(acc.bracestack, 1, n - 1),
                 !.bracemap = (position :> start) @@ (start :> position) @@ acc.bracemap]

\* variant: unmatched opening braces leave the flag as it is
unmatched_open_keeps_flag(acc) ==
  IF acc.bracestack # <<>>
  THEN [acc EXCEPT !.bracemap = [p \in Range(acc.bracestack) |-> p] @@ acc.bracemap]
  ELSE acc

unmatched_open(acc) ==
  IF acc.bracestack # <<>>
  THEN [acc EXCEPT !.bracemap = [p \in Range(acc.bracestack) |-> p] @@ acc.bracemap,
                   !.correct_syntax = FALSE]
  ELSE acc

visit(acc, position, command) ==
  IF command = "[" THEN open_brace(acc, position)
  ELSE IF command = "]"
       THEN IF acc.bracestack = <<>>
            THEN unmatched_close(acc, position)
            ELSE matched_close(acc, position)
       ELSE acc

RECURSIVE scan(_, _, _)
scan(c, position, acc) ==
  IF position = Len(c) THEN acc
  ELSE scan(c, position + 1, visit(acc, position, c[position + 1]))

buildbracemap(c) ==
  unmatched_open(scan(c, 0, [bracestack |-> <<>>, bracemap |-> <<>>,
                             correct_syntax |-> TRUE]))

\* variant: the empty program is not singled out
correct_syntax_without_empty_check(c) == buildbracemap(c).correct_syntax

\* Executable.__init__, lines 316-324
correct_syntax_of(c) ==
  IF Len(c) = 0 THEN FALSE ELSE buildbracemap(c).correct_syntax

is_valid_of(c, rcs) == correct_syntax_of(c) \/ ~rcs

-----------------------------------------------------------------------------
(* Memory *)

\* variant: new cells are filled with 0 instead of the null value
ensure_enough_cells_zero_filled(cs, ptr, cells_required) ==
  LET cell_shortage == ptr + cells_required - Len(cs)
  IN IF cell_shortage > 0
     THEN cs \o [i \in 1..cell_shortage |-> 0]
     ELSE cs

ensure_enough_cells(cs, ptr, cells_required) ==
  LET cell_shortage == ptr + cells_required - Len(cs)
  IN IF cell_shortage > 0
     THEN cs \o [i \in 1..cell_shortage |-> null_value]
     ELSE cs

\* read() returns cells_after_read(cs, ptr)[ptr + 1] and leaves the memory grown
cells_after_read(cs, ptr) == ensure_enough_cells(cs, ptr, 1)
read(cs, ptr) == cells_after_read(cs, ptr)[ptr + 1]

\* variant: only the first number of a sequence is stored
write_first_only(cs, ptr, value) ==
  LET grown == ensure_enough_cells(cs, ptr, Len(value))
  IN [i \in 1..Len(grown) |-> IF i - 1 = ptr THEN value[1] ELSE grown[i]]

\* write(value): value is the list the source builds (a scalar becomes [int(value)])
write(cs, ptr, value) ==
  LET grown == ensure_enough_cells(cs, ptr, Len(value))
  IN [i \in 1..Len(grown) |->
        IF i - 1 >= ptr /\ i - 1 < ptr + Len(value)
        THEN value[i - ptr] ELSE grown[i]]

\* variant: init() ignores the memory the caller supplied
initial_cells_always_default == <<0>>

initial_cells == IF init_memory # <<>> THEN init_memory ELSE <<0>>


\* variant: init() forgets the validity check
fresh_without_validity ==
  [program_trace |-> <<>>, codeptr |-> 0, cellptr |-> 0, steps |-> 0,
   cells |-> initial_cells, action_stack |-> <<>>,
   state |-> NOT_STARTED, result |-> None]

\* Executable.init: the values the machine's fields are reset to
fresh ==
  [program_trace |-> <<>>, codeptr |-> 0, cellptr |-> 0, steps |-> 0,
   cells |-> initial_cells, action_stack |-> <<>>,
   state |-> IF ~is_valid THEN FINISHED ELSE NOT_STARTED,
   result |-> IF ~is_valid THEN SYNTAX_ERROR ELSE None]

-----------------------------------------------------------------------------
(* Executable.record_snapshot *)

\* the namedtuple a snapshot is, taken of the fields m with the state st;
\* memval is read(), which grows the memory first
ExecutionSnapshot(m, command, st) ==
  [codeptr |-> m.codeptr, codechar |-> command, memptr |-> m.cellptr,
   memval |-> read(m.cells, m.cellptr),
   memory |-> cells_after_read(m.cells, m.cellptr),
   state |-> st, action_stack |-> m.action_stack]

\* the fields after record_snapshot: its read() has grown the memory
traced(m) ==
  IF debug THEN [m EXCEPT !.cells = cells_after_read(m.cells, m.cellptr)]
  ELSE m

\* the trace after record_snapshot
record_snapshot(trace, m, command, st) ==
  IF debug THEN Append(trace, ExecutionSnapshot(m, command, st))
  ELSE trace

\* every snapshot holds the list self.action_stack itself, not a copy of it:
\* what is done to the list shows in all of them
aliased(trace, stack) ==
  [i \in DOMAIN trace |-> [trace[i] EXCEPT !.action_stack = stack]]

\* the model follows the trace up to MaxTrace snapshots
trace_within_bounds(added) == debug => Len(program_trace) + added <= MaxTrace

-----------------------------------------------------------------------------
(* Executable.step *)

\* variant: the cap is compared with > instead of >=
step_limit_exceeded == max_steps # NoSteps /\ steps > max_steps

step_limit_reached == max_steps # NoSteps /\ steps >= max_steps

\* Python's code[codeptr]: negative indices count from the end
fetchable == codeptr >= -Len(code) /\ codeptr < Len(code)
fetch == IF codeptr >= 0 THEN code[codeptr + 1] ELSE code[Len(code) + codeptr + 1]

snapshot == [cellptr |-> cellptr, cells |-> cells, codeptr |-> codeptr,
             action_stack |-> action_stack]

\* variant: '>' leaves the cell pointer where it is
move_forward_nowhere(m) == m

move_forward(m) == [m EXCEPT !.cellptr = m.cellptr + 1]

move_back(m) == [m EXCEPT !.cellptr = IF m.cellptr <= 0 THEN 0 ELSE m.cellptr - 1]

\* variant: the jump is taken whatever the sign of the target
absolute_jump_unchecked(m) ==
  [m EXCEPT !.cells = cells_after_read(m.cells, m.cellptr),
            !.cellptr = read(m.cells, m.cellptr)]

absolute_jump(m) ==
  LET goto == read(m.cells, m.cellptr)
  IN [m EXCEPT !.cells = cells_after_read(m.cells, m.cellptr),
               !.cellptr = IF goto >= 0 THEN goto ELSE m.cellptr]

\* lines 425-433: read the current cell, add delta, write it back
add_to_cell(m, delta) ==
  LET grown == cells_after_read(m.cells, m.cellptr)
  IN [m EXCEPT !.cells = write(grown, m.cellptr, <<read(m.cells, m.cellptr) + delta>>)]

negate(m) ==
  LET grown == cells_after_read(m.cells, m.cellptr)
  IN [m EXCEPT !.cells = write(grown, m.cellptr, <<-read(m.cells, m.cellptr)>>)]

write_value(m, value) == [m EXCEPT !.cells = write(m.cells, m.cellptr, <<value>>)]

letter_jump(m, command) == [m EXCEPT !.cellptr = index(LETTERS, command)]

\* variant: '[' enters the loop whatever the cell holds
loop_open_always_enters(m) ==
  [m EXCEPT !.cells = cells_after_read(m.cells, m.cellptr)]

loop_open(m) ==
  [m EXCEPT !.cells = cells_after_read(m.cells, m.cellptr),
            !.codeptr = IF read(m.cells, m.cellptr) <= 0
                        THEN bracemap[m.codeptr] ELSE m.codeptr]

loop_close(m) ==
  [m EXCEPT !.cells = cells_after_read(m.cells, m.cellptr),
            !.codeptr = IF read(m.cells, m.cellptr) > 0
                        THEN bracemap[m.codeptr] ELSE m.codeptr]

\* variant: '.' puts the value behind the tokens, as '!' does
output_front_at_back(m) ==
  [m EXCEPT !.cells = cells_after_read(m.cells, m.cellptr),
            !.action_stack = Append(m.action_stack, read(m.cells, m.cellptr))]

output_front(m) ==
  [m EXCEPT !.cells = cells_after_read(m.cells, m.cellptr),
            !.action_stack = <<read(m.cells, m.cellptr)>> \o m.action_stack]

output_back(m) ==
  [m EXCEPT !.cells = cells_after_read(m.cells, m.cellptr),
            !.action_stack = Append(m.action_stack, read(m.cells, m.cellptr))]

\* lines 412-453: the effect of one command other than ',' (r is the random draw)
effect(m, command, r) ==
  IF command \notin alphabet THEN m
  ELSE IF command = ">" THEN move_forward(m)
  ELSE IF command = "<" THEN move_back(m)
  ELSE IF command = "^" THEN absolute_jump(m)
  ELSE IF command = "+" THEN add_to_cell(m, 1)
  ELSE IF command = "-" THEN add_to_cell(m, -1)
  ELSE IF command = "~" THEN negate(m)
  ELSE IF command = "@" THEN write_value(m, r)
  ELSE IF command \in Range(DIGITS) THEN write_value(m, index(DIGITS, command))
  ELSE IF command \in Range(LETTERS) THEN letter_jump(m, command)
  ELSE IF command = "[" THEN loop_open(m)
  ELSE IF command = "]" THEN loop_close(m)
  ELSE IF command = "." THEN output_front(m)
  ELSE IF command = "!" THEN output_back(m)
  ELSE m

\* np.random.randint(DEFAULT_STEPS)
draws ==
  IF state \in {NOT_STARTED, EXECUTING} /\ codeptr # Len(code) /\ fetchable /\ fetch = "@"
  THEN 0..(DEFAULT_STEPS - 1) ELSE {0}

\* the model follows the machine while its numbers stay within the bounds
within_bounds(m) ==
  /\ m.cellptr <= MaxCellPtr
  /\ fetch \in {"+", "-", "@"} =>
       m.cells[m.cellptr + 1] >= -MaxVal /\ m.cells[m.cellptr + 1] <= MaxVal
  /\ Len(m.action_stack) <= MaxStack

no_exception == raised' = None /\ details' = None

\* variant: the error does not carry the result
raise_finished_without_result ==
  /\ raised' = "ProgramFinishedError"
  /\ details' = None
  /\ UNCHANGED machine

\* variant: a finished machine ignores the call
raise_finished_silently ==
  /\ no_exception
  /\ UNCHANGED machine

\* lines 386-387
raise_finished ==
  /\ raised' = "ProgramFinishedError"
  /\ details' = result
  /\ UNCHANGED machine

\* lines 388-389
step_while_awaiting == no_exception /\ UNCHANGED machine

\* variant: the cap ends the run without naming a result
finish_step_limit_without_result ==
  /\ state' = FINISHED
  /\ no_exception
  /\ UNCHANGED <<codeptr, cellptr, steps, cells, action_stack, result,
                 program_trace>>

\* lines 393-396
finish_step_limit ==
  /\ result' = STEP_LIMIT
  /\ state' = FINISHED
  /\ no_exception
  /\ UNCHANGED <<codeptr, cellptr, steps, cells, action_stack, program_trace>>

\* line 402: the snapshot of the wrap, taken with codeptr -1
wrap_snapshot ==
  /\ trace_within_bounds(1)
  /\ cells' = traced(snapshot).cells
  /\ program_trace' = record_snapshot(program_trace,
                         [snapshot EXCEPT !.codeptr = -1], ",", AWAITING_INPUT)

\* variant: the end of the program always suspends, cyclic mode or not
end_of_program_always_wraps ==
  /\ codeptr' = -1 /\ state' = AWAITING_INPUT /\ result' = result
  /\ wrap_snapshot
  /\ no_exception
  /\ UNCHANGED <<cellptr, steps, action_stack>>

\* variant: the wrap leaves the pointer at 0 instead of -1
end_of_program_wraps_to_start ==
  /\ IF cycle
     THEN /\ codeptr' = 0 /\ state' = AWAITING_INPUT /\ result' = result
          /\ wrap_snapshot
     ELSE /\ codeptr' = codeptr /\ state' = FINISHED /\ result' = SUCCESS
          /\ UNCHANGED <<cells, program_trace>>
  /\ no_exception
  /\ UNCHANGED <<cellptr, steps, action_stack>>

\* lines 398-407
end_of_program ==
  /\ IF cycle
     THEN /\ codeptr' = -1 /\ state' = AWAITING_INPUT /\ result' = result
          /\ wrap_snapshot
     ELSE /\ codeptr' = codeptr /\ state' = FINISHED /\ result' = SUCCESS
          /\ UNCHANGED <<cells, program_trace>>
  /\ no_exception
  /\ UNCHANGED <<cellptr, steps, action_stack>>

\* line 409 with codeptr outside the program: IndexError after line 391
fetch_error ==
  /\ state' = EXECUTING
  /\ raised' = "IndexError"
  /\ details' = None
  /\ UNCHANGED <<codeptr, cellptr, steps, cells, action_stack, result,
                 program_trace>>

\* lines 410 and 455-458: ',' is recorded twice, before and after the
\* state changes
await_input ==
  /\ trace_within_bounds(2)
  /\ state' = AWAITING_INPUT
  /\ cells' = traced(snapshot).cells
  /\ program_trace' =
       record_snapshot(record_snapshot(program_trace, snapshot, fetch, EXECUTING),
                       snapshot, fetch, AWAITING_INPUT)
  /\ no_exception
  /\ UNCHANGED <<codeptr, cellptr, steps, action_stack, result>>

\* lines 410-461 for the other commands
run_command(r) ==
  LET m == effect(traced(snapshot), fetch, r)
  IN /\ within_bounds(m)
     /\ trace_within_bounds(1)
     /\ max_steps = NoSteps => steps < MaxCodeLen + 1
     /\ program_trace' =
          aliased(record_snapshot(program_trace, snapshot, fetch, EXECUTING),
                  m.action_stack)
     /\ state' = EXECUTING
     /\ cellptr' = m.cellptr
     /\ cells' = m.cells
     /\ action_stack' = m.action_stack
     /\ codeptr' = m.codeptr + 1
     /\ steps' = steps + 1
     /\ no_exception
     /\ UNCHANGED result

step(r) ==
  IF state = FINISHED THEN raise_finished
  ELSE IF state = AWAITING_INPUT THEN step_while_awaiting
  ELSE IF step_limit_reached THEN finish_step_limit
  ELSE IF codeptr = Len(code) THEN end_of_program
  ELSE IF ~fetchable THEN fetch_error
  ELSE IF fetch \in alphabet /\ fetch = "," THEN await_input
  ELSE run_command(r)

-----------------------------------------------------------------------------
(* ActionSampler.  A number of an action is the fraction num / den; a      *)
(* returned action is its kind ("int" for a plain number, "array" for an   *)
(* array) and the sequence of its numbers.                                 *)

Q(num, den) == [num |-> num, den |-> den]
NoAction == [kind |-> None, value |-> <<>>]
number(value) == [kind |-> "int", value |-> <<Q(value, 1)>>]
array(values) == [kind |-> "array", value |-> [i \in DOMAIN values |-> Q(values[i], 1)]]
zeros(n) == [i \in 1..n |-> 0]
ones(n) == [i \in 1..n |-> 1]
full(n, b) == [i \in 1..n |-> b]

\* the gym spaces; a side of a Box without a bound has bounded_* FALSE and
\* its low or high, infinite in gym, is never read
Discrete(n) ==
  [type |-> "Discrete", n |-> n, nvec |-> <<>>, low |-> <<>>, high |-> <<>>,
   bounded_below |-> <<>>, bounded_above |-> <<>>]
MultiDiscrete(nvec) ==
  [type |-> "MultiDiscrete", n |-> Len(nvec), nvec |-> nvec, low |-> <<>>, high |-> <<>>,
   bounded_below |-> <<>>, bounded_above |-> <<>>]
MultiBinary(n) ==
  [type |-> "MultiBinary", n |-> n, nvec |-> <<>>, low |-> <<>>, high |-> <<>>,
   bounded_below |-> <<>>, bounded_above |-> <<>>]
Box(low, high, bounded_below, bounded_above) ==
  [type |-> "Box", n |-> Len(low), nvec |-> <<>>, low |-> low, high |-> high,
   bounded_below |-> bounded_below, bounded_above |-> bounded_above]

\* variant: a Discrete space keeps the default number of steps
sampler_for_discrete_default_steps(space) ==
  [lower_bound |-> <<0>>, upper_bound |-> <<space.n - 1>>,
   bounded_below |-> <<TRUE>>, bounded_above |-> <<TRUE>>,
   default_action |-> number(0), sample_size |-> 1, just_a_number |-> TRUE,
   discretization_steps |-> DEFAULT_STEPS]

sampler_for_discrete(space) ==
  [lower_bound |-> <<0>>, upper_bound |-> <<space.n - 1>>,
   bounded_below |-> <<TRUE>>, bounded_above |-> <<TRUE>>,
   default_action |-> number(0), sample_size |-> 1, just_a_number |-> TRUE,
   discretization_steps |-> space.n]

sampler_for_multidiscrete(space, discretization_steps) ==
  [lower_bound |-> zeros(Len(space.nvec)), upper_bound |-> space.nvec,
   bounded_below |-> full(Len(space.nvec), TRUE),
   bounded_above |-> full(Len(space.nvec), TRUE),
   default_action |-> array(zeros(Len(space.nvec))),
   sample_size |-> Len(space.nvec), just_a_number |-> FALSE,
   discretization_steps |-> discretization_steps]

sampler_for_multibinary(space, discretization_steps) ==
  [lower_bound |-> zeros(space.n), upper_bound |-> ones(space.n),
   bounded_below |-> full(space.n, TRUE), bounded_above |-> full(space.n, TRUE),
   default_action |-> array(zeros(space.n)),
   sample_size |-> space.n, just_a_number |-> FALSE,
   discretization_steps |-> discretization_steps]

sampler_for_box(space, discretization_steps) ==
  [lower_bound |-> space.low, upper_bound |-> space.high,
   bounded_below |-> space.bounded_below, bounded_above |-> space.bounded_above,
   default_action |-> array(zeros(Len(space.low))),
   sample_size |-> Len(space.low), just_a_number |-> FALSE,
   discretization_steps |-> discretization_steps]

\* ActionSampler.__init__
ActionSampler(space, discretization_steps, default) ==
  LET made == CASE space.type = "Discrete" -> sampler_for_discrete(space)
                [] space.type = "MultiDiscrete" ->
                     sampler_for_multidiscrete(space, discretization_steps)
                [] space.type = "MultiBinary" ->
                     sampler_for_multibinary(space, discretization_steps)
                [] space.type = "Box" -> sampler_for_box(space, discretization_steps)
  IN IF default # NoAction THEN [made EXCEPT !.default_action = default] ELSE made

both_bounds(sp) ==
  [i \in DOMAIN sp.lower_bound |-> sp.bounded_above[i] /\ sp.bounded_below[i]]
lower_bound_only(sp) ==
  [i \in DOMAIN sp.lower_bound |-> ~sp.bounded_above[i] /\ sp.bounded_below[i]]
upper_bound_only(sp) ==
  [i \in DOMAIN sp.lower_bound |-> sp.bounded_above[i] /\ ~sp.bounded_below[i]]

\* lines 225-227: the integer array before the division.  The bounds of the
\* model are whole numbers, so storing the products in it truncates nothing.
scaled(sp, discrete_actions) ==
  [i \in DOMAIN discrete_actions |->
     IF both_bounds(sp)[i]
     THEN (discrete_actions[i] % sp.discretization_steps)
            * (sp.upper_bound[i] - sp.lower_bound[i] + 1)
     ELSE discrete_actions[i]]

\* line 228
divided(sp, integers) ==
  [i \in DOMAIN integers |-> Q(integers[i], sp.discretization_steps)]

\* bound - number
reflected(bound, q) == Q(bound * q.den - q.num, q.den)
less(q, bound) == q.num < bound * q.den
greater(q, bound) == q.num > bound * q.den

\* what a function gives: the value it returns, or the exception it raises
returning(value) == [raised |-> None, value |-> value]
raising(exception) == [raised |-> exception, value |-> <<>>]

\* `bound - actions[selected][flip]` and its assignment to
\* `actions[selected][flip]`: with `selected` dimensions, `flipped` of them to
\* reflect, the subtraction takes a bound for every selected dimension and a
\* number for every flipped one.  numpy subtracts when the two lengths are
\* equal or one of them is 1, and stores the difference in the flipped places
\* when it has as many numbers as there are places; in every other case one
\* of the two raises ValueError
flip_fits(selected, flipped) == selected = flipped \/ selected <= 1

\* lines 229-230: actions[lower_bound_only] is a copy of the selected numbers
\* (indexing with a boolean array copies), the reflected numbers are stored
\* in that copy and the copy is dropped: actions is left as it was, unless
\* the arrays do not fit
flip_lower(sp, actions) ==
  LET selected == {i \in DOMAIN actions : lower_bound_only(sp)[i]}
      flip == {i \in selected : less(actions[i], sp.lower_bound[i])}
  IN IF flip_fits(Cardinality(selected), Cardinality(flip))
     THEN returning(actions)
     ELSE raising("ValueError")

\* lines 231-232: the same with the upper bounds
flip_upper(sp, actions) ==
  LET selected == {i \in DOMAIN actions : upper_bound_only(sp)[i]}
      flip == {i \in selected : greater(actions[i], sp.upper_bound[i])}
  IN IF flip_fits(Cardinality(selected), Cardinality(flip))
     THEN returning(actions)
     ELSE raising("ValueError")

undiscretize(sp, discrete_actions) ==
  LET lowered == flip_lower(sp, divided(sp, scaled(sp, discrete_actions)))
  IN IF lowered.raised # None THEN lowered ELSE flip_upper(sp, lowered.value)

\* int() of a number: the fraction is cut off
int(q) == IF q.num >= 0 THEN q.num \div q.den ELSE -((-q.num) \div q.den)

\* action_stack[-sample_size:] and what del action_stack[-sample_size:]
\* leaves; with a sample_size of 0 the slice [-0:] is the whole stack
raw_action(sp, stack) ==
  IF sp.sample_size = 0 THEN stack
  ELSE SubSeq(stack, Len(stack) - sp.sample_size + 1, Len(stack))
rest_of_stack(sp, stack) ==
  IF sp.sample_size = 0 THEN <<>>
  ELSE SubSeq(stack, 1, Len(stack) - sp.sample_size)

\* lines 247-250: reshape() raises ValueError when the tokens taken are not
\* as many as the sample holds; the action is made of the numbers that
\* undiscretize returns
shaped(sp, tokens) ==
  IF Len(tokens) # sp.sample_size THEN raising("ValueError")
  ELSE undiscretize(sp, tokens)
action_of(sp, values) ==
  IF sp.just_a_number THEN number(int(values[1]))
  ELSE [kind |-> "array", value |-> values]

\* variant: a stack with too few tokens is emptied
sample_clearing_short_stack(sp, stack) ==
  IF Len(stack) >= sp.sample_size
  THEN LET made == shaped(sp, raw_action(sp, stack))
       IN [raised |-> made.raised,
           action |-> IF made.raised = None THEN action_of(sp, made.value)
                      ELSE NoAction,
           action_stack |-> rest_of_stack(sp, stack)]
  ELSE [raised |-> None, action |-> sp.default_action, action_stack |-> <<>>]

\* ActionSampler.sample: the action it returns or the exception it raises,
\* and the stack it leaves (the tokens are deleted before anything raises)
sample(sp, stack) ==
  IF Len(stack) >= sp.sample_size
  THEN LET made == shaped(sp, raw_action(sp, stack))
       IN [raised |-> made.raised,
           action |-> IF made.raised = None THEN action_of(sp, made.value)
                      ELSE NoAction,
           action_stack |-> rest_of_stack(sp, stack)]
  ELSE [raised |-> None, action |-> sp.default_action, action_stack |-> stack]

-----------------------------------------------------------------------------
(* make_bf_plus *)

\* variant: the sentinel is put after the commands
BF_INT_TO_CHAR_sentinel_last(allowed) == allowed \o <<BF_EOS_CHAR>>

BF_INT_TO_CHAR(allowed) == <<BF_EOS_CHAR>> \o allowed

\* the dict built from enumerate(): a later entry for a character replaces
\* an earlier one
BF_CHAR_TO_INT(allowed) ==
  LET table == BF_INT_TO_CHAR(allowed)
  IN [c \in Range(table) |->
        (CHOOSE i \in DOMAIN table :
           table[i] = c /\ \A j \in DOMAIN table : table[j] = c => j <= i) - 1]

bf_int_to_char(allowed, indices) ==
  [k \in DOMAIN indices |-> BF_INT_TO_CHAR(allowed)[indices[k] + 1]]

bf_char_to_int(allowed, text) ==
  [k \in DOMAIN text |-> BF_CHAR_TO_INT(allowed)[text[k]]]

\* the characters the classes [{pointer_actions}] and [{memory_actions}]
\* match: in the class, \+ and \- stand for + and -
pointer_actions == Range(LETTERS) \cup {">", "<"}
memory_actions == Range(DIGITS) \cup {"+", "-"}

\* the alternatives of the first pattern of prune_step
cancelling == {<<"+", "-">>, <<">", "<">>, <<"-", "+">>, <<"<", ">">>}

\* re.sub(r'\+\-|><|\-\+|<>', '', text) from position i on: the matches are
\* taken from left to right and do not overlap
RECURSIVE drop_pairs(_, _)
drop_pairs(text, i) ==
  IF i > Len(text) THEN <<>>
  ELSE IF i < Len(text) /\ <<text[i], text[i + 1]>> \in cancelling
  THEN drop_pairs(text, i + 2)
  ELSE <<text[i]>> \o drop_pairs(text, i + 1)

\* where a match of [class]+(?=[ahead]) that starts at i can end: after one
\* or more characters of the class, before a character of ahead
match_ends(text, i, class, ahead) ==
  {e \in (i + 1)..Len(text) :
     /\ \A k \in i..(e - 1) : text[k] \in class
     /\ text[e] \in ahead}

\* the match is greedy: it ends as late as it can
longest(ends) == CHOOSE e \in ends : \A f \in ends : f <= e

\* re.sub(fr'[{class}]+(?=[{ahead}])', '', text) from position i on
RECURSIVE drop_runs(_, _, _, _)
drop_runs(text, i, class, ahead) ==
  IF i > Len(text) THEN <<>>
  ELSE IF match_ends(text, i, class, ahead) # {}
  THEN drop_runs(text, longest(match_ends(text, i, class, ahead)), class, ahead)
  ELSE <<text[i]>> \o drop_runs(text, i + 1, class, ahead)

\* the three substitutions, each applied to the text the one before returned
prune_step(text) ==
  CHOOSE without_sets \in
    { drop_runs(without_moves, 1, memory_actions, Range(DIGITS)) :
        without_moves \in
          { drop_runs(without_pairs, 1, pointer_actions, Range(LETTERS)) :
              without_pairs \in {drop_pairs(text, 1)} } } : TRUE

\* old_code = None
NoCode == <<None>>

\* the loop of prune()
RECURSIVE prune_loop(_, _)
prune_loop(old, new) ==
  IF new # old THEN prune_loop(new, prune_step(new)) ELSE new

prune(text) == prune_loop(NoCode, text)

-----------------------------------------------------------------------------
(* The calls *)

\* lines 478-484 of input()
accept_input(value) ==
  LET written == [snapshot EXCEPT !.cells = write(cells, cellptr, value),
                                  !.codeptr = codeptr + 1]
  IN /\ trace_within_bounds(1)
     /\ cells' = traced(written).cells
     /\ codeptr' = written.codeptr
     /\ steps' = 0
     /\ state' = EXECUTING
     /\ program_trace' = record_snapshot(program_trace, written, ",", EXECUTING)
     /\ no_exception
     /\ UNCHANGED <<cellptr, action_stack, result>>

\* where execute()'s loop stands after a step
after_step(looping) ==
  IF raised' = None /\ state' = EXECUTING THEN looping ELSE "idle"

\* a call of step()
call_step ==
  /\ pc = "idle"
  /\ last_call' = "step" /\ action' = NoAction
  /\ \E r \in draws : step(r)
  /\ pc' = "idle" /\ inp' = <<>>
  /\ UNCHANGED <<config, language>>

StepCall == call_step /\ UNCHANGED callers

\* execute() from its call to the end of its first step()
call_execute ==
  /\ pc = "idle"
  /\ last_call' = "execute" /\ action' = NoAction
  /\ \E r \in draws : step(r)
  /\ pc' = after_step("execute") /\ inp' = <<>>
  /\ UNCHANGED <<config, language>>

ExecuteCall == call_execute /\ UNCHANGED callers

\* one more turn of execute()'s loop
loop_execute ==
  /\ pc = "execute"
  /\ \E r \in draws : step(r)
  /\ pc' = after_step("execute")
  /\ UNCHANGED <<config, language, inp, last_call, action>>

ExecuteLoop == loop_execute /\ UNCHANGED callers

\* input() from its call to the first step() it runs, or to its return
call_input(value) ==
  /\ pc = "idle"
  /\ last_call' = "input" /\ action' = NoAction
  /\ IF state \in {NOT_STARTED, AWAITING_INPUT}
     THEN accept_input(value) /\ pc' = "idle" /\ inp' = <<>>
     ELSE /\ \E r \in draws : step(r)
          /\ pc' = IF raised' = None THEN "input" ELSE "idle"
          /\ inp' = IF raised' = None THEN value ELSE <<>>
  /\ UNCHANGED <<config, language>>

InputCall(value) == call_input(value) /\ UNCHANGED callers

\* variant: the loop of input() stops where execute() stops, at Finished too
InputLoop_until_stopped ==
  /\ pc = "input"
  /\ IF state # EXECUTING
     THEN accept_input(inp) /\ pc' = "idle" /\ inp' = <<>>
     ELSE /\ \E r \in draws : step(r)
          /\ pc' = IF raised' = None THEN "input" ELSE "idle"
          /\ inp' = IF raised' = None THEN inp ELSE <<>>
  /\ UNCHANGED <<config, language, callers, last_call, action>>

\* one more turn of input()'s loop, or its lines 478-484
loop_input ==
  /\ pc = "input"
  /\ IF state = AWAITING_INPUT
     THEN accept_input(inp) /\ pc' = "idle" /\ inp' = <<>>
     ELSE /\ \E r \in draws : step(r)
          /\ pc' = IF raised' = None THEN "input" ELSE "idle"
          /\ inp' = IF raised' = None THEN inp ELSE <<>>
  /\ UNCHANGED <<config, language, last_call, action>>

InputLoop == loop_input /\ UNCHANGED callers

\* variant: done() without the test of the state
done_always_kills ==
  /\ pc = "idle"
  /\ state' = FINISHED /\ result' = KILLED
  /\ no_exception
  /\ pc' = "idle" /\ inp' = <<>> /\ last_call' = "done" /\ action' = NoAction
  /\ UNCHANGED <<config, language, callers, codeptr, cellptr, steps, cells,
                 action_stack, program_trace>>

call_done ==
  /\ pc = "idle"
  /\ IF state # FINISHED
     THEN state' = FINISHED /\ result' = KILLED
     ELSE UNCHANGED <<state, result>>
  /\ no_exception
  /\ pc' = "idle" /\ inp' = <<>> /\ last_call' = "done" /\ action' = NoAction
  /\ UNCHANGED <<config, language, codeptr, cellptr, steps, cells, action_stack,
                 program_trace>>

done == call_done /\ UNCHANGED callers

call_act ==
  /\ pc = "idle"
  /\ last_call' = "act"
  /\ LET sampled == sample(sampler, action_stack)
     IN /\ action' = sampled.action /\ action_stack' = sampled.action_stack
        /\ program_trace' = aliased(program_trace, sampled.action_stack)
        /\ raised' = sampled.raised /\ details' = None
  /\ pc' = "idle" /\ inp' = <<>>
  /\ UNCHANGED <<config, language, codeptr, cellptr, steps, cells, state, result>>

act == call_act /\ UNCHANGED callers

call_init ==
  /\ pc = "idle"
  /\ codeptr' = fresh.codeptr /\ cellptr' = fresh.cellptr /\ steps' = fresh.steps
  /\ cells' = fresh.cells /\ action_stack' = fresh.action_stack
  /\ state' = fresh.state /\ result' = fresh.result
  /\ program_trace' = fresh.program_trace
  /\ no_exception
  /\ pc' = "idle" /\ inp' = <<>> /\ last_call' = "init" /\ action' = NoAction
  /\ UNCHANGED <<config, language>>

init == call_init /\ UNCHANGED callers

-----------------------------------------------------------------------------
(* The calls of the language helpers: a program text is encoded, decoded   *)
(* again and pruned.                                                       *)

CharToIntCall ==
  /\ lang_pc = "text"
  /\ code_indices' = bf_char_to_int(allowed_commands, program)
  /\ lang_pc' = "encoded"
  /\ UNCHANGED <<config, machine, control, callers, allowed_commands, program, decoded,
                 old_code, new_code, pruned>>

IntToCharCall ==
  /\ lang_pc = "encoded"
  /\ decoded' = bf_int_to_char(allowed_commands, code_indices)
  /\ lang_pc' = "decoded"
  /\ UNCHANGED <<config, machine, control, callers, allowed_commands, program,
                 code_indices, old_code, new_code, pruned>>

\* lines 287-288
PruneCall ==
  /\ lang_pc = "decoded"
  /\ old_code' = NoCode /\ new_code' = decoded
  /\ lang_pc' = "pruning"
  /\ UNCHANGED <<config, machine, control, callers, allowed_commands, program,
                 code_indices, decoded, pruned>>

\* variant: the loop makes one pass only
prune_continues_once == old_code = NoCode

\* line 290
prune_continues == new_code # old_code

\* line 291
PruneLoop ==
  /\ lang_pc = "pruning" /\ prune_continues
  /\ old_code' = new_code /\ new_code' = prune_step(new_code)
  /\ UNCHANGED <<config, machine, control, callers, allowed_commands, program,
                 code_indices, decoded, pruned, lang_pc>>

\* line 293
PruneReturn ==
  /\ lang_pc = "pruning" /\ ~prune_continues
  /\ pruned' = new_code
  /\ lang_pc' = "pruned"
  /\ UNCHANGED <<config, machine, control, callers, allowed_commands, program,
                 code_indices, decoded, old_code, new_code>>

-----------------------------------------------------------------------------
(* The machines of the model *)

\* every program up to MaxCodeLen over the bracket, increment and input commands
Symbols == {"[", "]", "+", ","}
Programs == UNION {[1..n -> Symbols] : n \in 0..MaxCodeLen}

\* programs that use the other commands, and characters outside the alphabet
SamplePrograms ==
  { <<>>,
    <<"1", ">", "2", "!">>,
    <<">", "!">>,
    <<"+", ">">>,
    <<"-", ".", "<">>,
    <<"+", "[", "-", "]">>,
    <<"!", ",", "!">>,
    <<"-", "^", "~", "^">>,
    <<"c", "2", "a", ".">>,
    <<"x", "_", "5", "f">>,
    <<"[", "[", "]", "]">>,
    <<"[", "+">>,
    <<">", "[", "]">> }

StepCaps == {NoSteps, MaxCodeLen}
Observations == {<<0>>, <<1>>, <<2, 1>>}
InitMemories == {<<>>, <<1>>}
NullValues == {0, 1}

\* programs for the machines whose initial memory and null value vary
MemoryPrograms == { <<">", "!">>, <<"+", ">">>, <<"[", "+">> }

\* a program that writes random numbers
RandomPrograms == { <<"@", "!">> }

\* programs that write to the action stack, for the machines whose action
\* space varies
OutputPrograms == { <<"3", "!">>, <<"-", "!">>, <<"+", "!">> }

\* an action space and the default_action given with it
SamplerSetups ==
  { [space |-> Discrete(4), default |-> NoAction],
    [space |-> Discrete(3), default |-> number(2)],
    [space |-> MultiDiscrete(<<1, 2>>), default |-> NoAction],
    [space |-> MultiBinary(2), default |-> NoAction],
    [space |-> Box(<<-1>>, <<1>>, <<TRUE>>, <<TRUE>>), default |-> NoAction],
    [space |-> Box(<<0>>, <<0>>, <<TRUE>>, <<FALSE>>), default |-> NoAction],
    [space |-> Box(<<0>>, <<0>>, <<FALSE>>, <<TRUE>>), default |-> NoAction],
    [space |-> MultiBinary(0), default |-> NoAction],
    [space |-> Box(<<0, 0>>, <<0, 0>>, <<TRUE, TRUE>>, <<FALSE, FALSE>>),
     default |-> NoAction] }

\* programs that prune() shortens
PrunablePrograms == { <<"<", ">", "+">>, <<">", "<", "+">>, <<"-", "1", "!">> }

\* programs run with debug=True
DebugPrograms == { <<">", ">">>, <<"+", "!">> }

\* the machine as __init__ leaves it
Constructed ==
  /\ sampler = ActionSampler(action_space, DEFAULT_STEPS, default_action)
  /\ bracemap = buildbracemap(code).bracemap
  /\ is_valid = is_valid_of(code, require_correct_syntax)
  /\ codeptr = fresh.codeptr /\ cellptr = fresh.cellptr /\ steps = fresh.steps
  /\ cells = fresh.cells /\ action_stack = fresh.action_stack
  /\ state = fresh.state /\ result = fresh.result
  /\ program_trace = fresh.program_trace
  /\ pc = "idle" /\ inp = <<>> /\ raised = None /\ details = None
  /\ last_call = "construct" /\ action = NoAction

\* no attend_gym() is running
NoEpisode ==
  /\ gym_pc = "none" /\ max_reps = 0 /\ reps = 0
  /\ observation = <<>> /\ render = FALSE

\* one instance only is run
NoReplay == run = "only" /\ calls = <<>> /\ seen = <<>> /\ replayed = 0

\* the language helpers with the text they are given
Language(allowed, text) ==
  /\ allowed_commands = allowed /\ program = text
  /\ code_indices = <<>> /\ decoded = <<>>
  /\ old_code = NoCode /\ new_code = <<>> /\ pruned = <<>>
  /\ lang_pc = "text"

Init ==
  /\ \/ /\ code \in Programs /\ init_memory = <<>> /\ null_value = 0
        /\ require_correct_syntax \in BOOLEAN /\ max_steps \in StepCaps
        /\ action_space = Discrete(4) /\ default_action = NoAction
        /\ debug = FALSE
     \/ /\ code \in SamplePrograms /\ init_memory = <<>> /\ null_value = 0
        /\ require_correct_syntax \in BOOLEAN /\ max_steps \in StepCaps
        /\ action_space = Discrete(4) /\ default_action = NoAction
        /\ debug = FALSE
     \/ /\ code \in MemoryPrograms /\ init_memory \in InitMemories
        /\ null_value \in NullValues
        /\ require_correct_syntax = TRUE /\ max_steps = NoSteps
        /\ action_space = Discrete(4) /\ default_action = NoAction
        /\ debug = FALSE
     \/ /\ code \in RandomPrograms /\ init_memory = <<>> /\ null_value = 0
        /\ require_correct_syntax = TRUE /\ max_steps = NoSteps
        /\ action_space = Discrete(4) /\ default_action = NoAction
        /\ debug = FALSE
     \/ /\ code \in OutputPrograms /\ init_memory = <<>> /\ null_value = 0
        /\ require_correct_syntax = TRUE /\ max_steps = NoSteps
        /\ \E setup \in SamplerSetups :
             action_space = setup.space /\ default_action = setup.default
        /\ debug = FALSE
     \/ /\ code \in PrunablePrograms /\ init_memory = <<>> /\ null_value = 0
        /\ require_correct_syntax = TRUE /\ max_steps = NoSteps
        /\ action_space = Discrete(4) /\ default_action = NoAction
        /\ debug = FALSE
     \/ /\ code \in DebugPrograms /\ init_memory = <<>> /\ null_value = 0
        /\ require_correct_syntax = TRUE /\ max_steps = NoSteps
        /\ action_space = Discrete(4) /\ default_action = NoAction
        /\ debug = TRUE
  /\ cycle \in BOOLEAN
  /\ Constructed
  /\ Language(DEFAULT_CMD_SET, <<>>)
  /\ NoEpisode /\ NoReplay

Next ==
  \/ StepCall
  \/ ExecuteCall
  \/ ExecuteLoop
  \/ \E value \in Observations : InputCall(value)
  \/ InputLoop
  \/ done
  \/ act
  \/ init

Spec == Init /\ [][Next]_vars

\* the texts the language helpers are tried on: the sentinel, commands that
\* prune rewrites, and a command that it leaves alone
TextSymbols == {"_", "+", "-", ">", "<", "a", "1"}
Texts == UNION {[1..n -> TextSymbols] : n \in 0..MaxTextLen}
CommandSets == {DEFAULT_CMD_SET, <<"+", "-", ">", "<", "1", "a">>}

LanguageInit ==
  /\ code = <<>> /\ init_memory = <<>> /\ null_value = 0
  /\ require_correct_syntax = FALSE /\ max_steps = NoSteps /\ cycle = FALSE
  /\ action_space = Discrete(4) /\ default_action = NoAction
  /\ debug = FALSE
  /\ Constructed
  /\ \E allowed \in CommandSets, text \in Texts : Language(allowed, text)
  /\ NoEpisode /\ NoReplay

LanguageNext ==
  \/ CharToIntCall
  \/ IntToCharCall
  \/ PruneCall
  \/ PruneLoop
  \/ PruneReturn

\* a call of prune() that has begun goes on: the loop is sequential code
LanguageSpec ==
  LanguageInit /\ [][LanguageNext]_vars /\ WF_vars(PruneLoop \/ PruneReturn)

-----------------------------------------------------------------------------
(* An episode: Agent.attend_gym() driving the machine *)

MaxReps == 3

\* the max_reps given to attend_gym(); 0 is falsy, as None is
RepChoices == 0..(MaxReps - 1)

\* the programs of the agents that attend an episode
EpisodePrograms ==
  { <<>>,
    <<",", "!">>,
    <<"+", "!">>,
    <<"1", "!", ",">>,
    <<"+", "[", "]">>,
    <<"[", "+">> }

\* the exceptions that attend_gym() catches
ActionErrors == {"ProgramFinishedError"}

\* where attend_gym() goes when self.input() has made its step: on while
\* input() runs, to act() when it returned, to self.done() when it raised an
\* ActionError, out of attend_gym() when it raised anything else
after_input ==
  IF pc' = "input" THEN "input"
  ELSE IF raised' = None THEN "act"
  ELSE IF raised' \in ActionErrors THEN "done"
  ELSE "raised"

\* the machine was run before the episode
ExecuteBefore == gym_pc = "none" /\ ExecuteCall

\* attend_gym() up to self.init()
attend_gym(reps_given, render_given) ==
  /\ gym_pc = "none"
  /\ call_init
  /\ gym_pc' = "reset" /\ max_reps' = reps_given /\ render' = render_given
  /\ UNCHANGED <<reps, observation, replay>>

\* observation = env.reset()
env_reset ==
  /\ gym_pc = "reset"
  /\ \E first \in Observations : observation' = first
  /\ gym_pc' = "loop"
  /\ UNCHANGED <<config, machine, control, language, replay, max_reps, reps, render>>

\* the range is exhausted: a max_reps of 0 makes it itertools.count()
loop_ends ==
  /\ gym_pc = "loop"
  /\ max_reps # 0 /\ reps = max_reps
  /\ gym_pc' = "done"
  /\ UNCHANGED <<config, machine, control, language, replay, max_reps, reps, observation,
                 render>>

\* the next iteration begins with self.input(observation)
gym_input ==
  /\ gym_pc = "loop"
  /\ max_reps # 0 => reps < max_reps
  /\ reps < MaxReps
  /\ call_input(observation)
  /\ reps' = reps + 1
  /\ gym_pc' = after_input
  /\ UNCHANGED <<max_reps, observation, render, replay>>

\* self.input(observation) goes on
gym_input_loop ==
  /\ gym_pc = "input"
  /\ loop_input
  /\ gym_pc' = after_input
  /\ UNCHANGED <<max_reps, reps, observation, render, replay>>

\* env.render(), which may raise NotImplementedError, and action = self.act()
gym_act ==
  /\ gym_pc = "act"
  /\ render' \in (IF render THEN BOOLEAN ELSE {FALSE})
  /\ call_act
  /\ gym_pc' = IF raised' = None THEN "step"
               ELSE IF raised' \in ActionErrors THEN "done"
               ELSE "raised"
  /\ UNCHANGED <<max_reps, reps, observation, replay>>

\* env.step(action) and the end of the iteration
env_step ==
  /\ gym_pc = "step"
  /\ \E next \in Observations, env_done \in BOOLEAN :
       /\ observation' = next
       /\ gym_pc' = IF env_done THEN "done" ELSE "loop"
  /\ UNCHANGED <<config, machine, control, language, replay, max_reps, reps, render>>

\* the statements after the try block, without self.done()
gym_return_without_done ==
  /\ gym_pc = "done"
  /\ gym_pc' = "returned"
  /\ UNCHANGED <<config, machine, control, language, replay, max_reps, reps, observation,
                 render>>

\* self.done(), env.close() and the return
gym_return ==
  /\ gym_pc = "done"
  /\ call_done
  /\ gym_pc' = "returned"
  /\ UNCHANGED <<max_reps, reps, observation, render, replay>>

EpisodeInit ==
  /\ code \in EpisodePrograms /\ init_memory = <<>> /\ null_value = 0
  /\ require_correct_syntax \in BOOLEAN /\ max_steps \in StepCaps
  /\ action_space = Discrete(4) /\ default_action = NoAction
  /\ debug = FALSE
  /\ cycle \in BOOLEAN
  /\ Constructed
  /\ Language(DEFAULT_CMD_SET, <<>>)
  /\ NoEpisode /\ NoReplay

EpisodeNext ==
  \/ ExecuteBefore
  \/ ExecuteLoop
  \/ \E reps_given \in RepChoices, render_given \in BOOLEAN :
       attend_gym(reps_given, render_given)
  \/ env_reset
  \/ loop_ends
  \/ gym_input
  \/ gym_input_loop
  \/ gym_act
  \/ env_step
  \/ gym_return

EpisodeSpec == EpisodeInit /\ [][EpisodeNext]_vars

-----------------------------------------------------------------------------
(* Two instances constructed with the same arguments and given the same   *)
(* calls, one after the other                                             *)

MaxCalls == 5

\* the programs of the two instances
ReplayPrograms ==
  { <<",", "+", "!">>,
    <<"1", ".", ",">>,
    <<"+", "[", "]">>,
    <<"@", "!">> }

\* a call with its argument; "loop" is the next turn of the loop of an
\* execute() or input() that has not returned
perform(call) ==
  \/ call.op = "step" /\ call_step
  \/ call.op = "execute" /\ call_execute
  \/ call.op = "input" /\ call_input(call.value)
  \/ call.op = "act" /\ call_act
  \/ call.op = "loop" /\ loop_execute
  \/ call.op = "loop" /\ loop_input

\* what an instance shows: its fields, whether the call has returned, what
\* it returned or raised
observed ==
  [state |-> state, result |-> result, codeptr |-> codeptr, cellptr |-> cellptr,
   cells |-> cells, action_stack |-> action_stack, steps |-> steps,
   returned |-> pc = "idle", action |-> action,
   raised |-> raised, details |-> details]

\* variant: the instance keeps the caller's list as its memory, so that it
\* starts on what another instance given the same list has left in it
construct_on_shared_memory ==
  /\ codeptr' = fresh.codeptr /\ cellptr' = fresh.cellptr /\ steps' = fresh.steps
  /\ cells' = IF init_memory # <<>> THEN cells ELSE fresh.cells
  /\ action_stack' = fresh.action_stack
  /\ state' = fresh.state /\ result' = fresh.result
  /\ program_trace' = fresh.program_trace
  /\ no_exception
  /\ pc' = "idle" /\ inp' = <<>> /\ last_call' = "construct" /\ action' = NoAction
  /\ UNCHANGED <<config, language>>

\* Executable(...) with the arguments of the first instance
construct ==
  /\ codeptr' = fresh.codeptr /\ cellptr' = fresh.cellptr /\ steps' = fresh.steps
  /\ cells' = fresh.cells /\ action_stack' = fresh.action_stack
  /\ state' = fresh.state /\ result' = fresh.result
  /\ program_trace' = fresh.program_trace
  /\ no_exception
  /\ pc' = "idle" /\ inp' = <<>> /\ last_call' = "construct" /\ action' = NoAction
  /\ UNCHANGED <<config, language>>

\* a call on the first instance, or the next turn of its running call
first_run(call) ==
  /\ run = "first" /\ Len(calls) < MaxCalls
  /\ perform(call)
  /\ calls' = Append(calls, call)
  /\ seen' = Append(seen, observed')
  /\ UNCHANGED <<run, replayed, episode>>

\* the calls of the first instance have returned; the second is constructed
second_instance ==
  /\ run = "first" /\ pc = "idle" /\ calls # <<>>
  /\ construct
  /\ run' = "second" /\ replayed' = 0
  /\ UNCHANGED <<calls, seen, episode>>

\* the second instance is given the next of the calls of the first
second_run ==
  /\ run = "second" /\ replayed < Len(calls)
  /\ perform(calls[replayed + 1])
  /\ replayed' = replayed + 1
  /\ UNCHANGED <<run, calls, seen, episode>>

ReplayInit ==
  /\ code \in ReplayPrograms /\ init_memory \in InitMemories /\ null_value = 0
  /\ require_correct_syntax = TRUE /\ max_steps \in StepCaps
  /\ action_space = Discrete(4) /\ default_action = NoAction
  /\ debug = FALSE
  /\ cycle \in BOOLEAN
  /\ Constructed
  /\ Language(DEFAULT_CMD_SET, <<>>)
  /\ NoEpisode
  /\ run = "first" /\ calls = <<>> /\ seen = <<>> /\ replayed = 0

ReplayNext ==
  \/ \E op \in {"step", "execute", "act", "loop"} :
       first_run([op |-> op, value |-> <<>>])
  \/ \E value \in Observations : first_run([op |-> "input", value |-> value])
  \/ second_instance
  \/ second_run

ReplaySpec == ReplayInit /\ [][ReplayNext]_vars

-----------------------------------------------------------------------------
(* Vocabulary of the properties *)

\* the positions (0-based) of the brackets of the program
BracketPositions == {p \in 0..(Len(code) - 1) : code[p + 1] \in {"[", "]"}}

Count(s, k, ch) == Cardinality({i \in 1..k : s[i] = ch})

\* s is a balanced bracket string: no prefix closes more than it opens
Balanced(s) ==
  /\ \A k \in 0..Len(s) : Count(s, k, "[") >= Count(s, k, "]")
  /\ Count(s, Len(s), "[") = Count(s, Len(s), "]")

\* the '[' at p and the ']' at q enclose a balanced string
Partner(p, q) ==
  /\ p < q
  /\ code[p + 1] = "[" /\ code[q + 1] = "]"
  /\ Balanced(SubSeq(code, p + 2, q))

Unmatched(p) ==
  /\ p \in BracketPositions
  /\ ~\E q \in BracketPositions : Partner(p, q) \/ Partner(q, p)

HasUnmatched == \E p \in BracketPositions : Unmatched(p)

Malformed == Len(code) = 0 \/ HasUnmatched

\* a call, or the continuation of a call, that runs step()
StepTaken ==
  \/ StepCall
  \/ ExecuteCall
  \/ ExecuteLoop
  \/ state # AWAITING_INPUT /\ InputLoop
  \/ state \notin {NOT_STARTED, AWAITING_INPUT} /\ \E value \in Observations : InputCall(value)

\* input() reaches its lines 478-484
InputAccepted ==
  \/ state \in {NOT_STARTED, AWAITING_INPUT} /\ \E value \in Observations : InputCall(value)
  \/ state = AWAITING_INPUT /\ InputLoop

-----------------------------------------------------------------------------
(* C1: the jump table is defined on exactly the bracket positions and is an
   involution there: jump[jump[p]] = p for every bracket position p; and when
   p is matched (does not map to itself) its image holds the opposite
   bracket, the '[' lying strictly before the ']'. *)
C1_JumpInvolution ==
  /\ DOMAIN bracemap = BracketPositions
  /\ \A p \in BracketPositions :
       /\ bracemap[p] \in BracketPositions
       /\ bracemap[bracemap[p]] = p
       /\ bracemap[p] # p =>
            /\ code[p + 1] # code[bracemap[p] + 1]
            /\ code[p + 1] = "[" => p < bracemap[p]
            /\ code[p + 1] = "]" => bracemap[p] < p

\* a nested pair: the outer brackets of "[[]]" map to each other
C1_Witness ==
  /\ code = <<"[", "[", "]", "]">>
  /\ bracemap[0] = 3 /\ bracemap[3] = 0 /\ bracemap[1] = 2

(* C2: for a non-empty program the builder's flag is false exactly when some
   bracket has no partner, every bracket without a partner maps to itself,
   every bracket with a partner maps to it, and the builder is total (the
   table covers every bracket position). *)
C2_UnmatchedSelfLoop ==
  Len(code) > 0 =>
    /\ buildbracemap(code).correct_syntax = ~HasUnmatched
    /\ is_valid = (~HasUnmatched \/ ~require_correct_syntax)
    /\ DOMAIN bracemap = BracketPositions
    /\ \A p \in BracketPositions : Unmatched(p) => bracemap[p] = p
    /\ \A p, q \in BracketPositions : Partner(p, q) => bracemap[p] = q /\ bracemap[q] = p

\* "[[]": the first bracket is unmatched, the other two are partners
C2_Witness ==
  /\ code = <<"[", "[", "]">>
  /\ Unmatched(0) /\ bracemap[0] = 0
  /\ Partner(1, 2) /\ bracemap[1] = 2
  /\ ~is_valid

(* C3 as stated: a machine built from the zero-length program is never valid
   and never runnable. *)
C3_EmptyNeverValid ==
  Len(code) = 0 => ~is_valid /\ state = FINISHED

(* C3 amended: the zero-length program always has correct_syntax false; under
   strict validity the machine is invalid and stays Finished(SyntaxError);
   without strict validity the machine is valid. *)
C3_EmptyIllFormed ==
  Len(code) = 0 =>
    /\ ~correct_syntax_of(code)
    /\ is_valid = ~require_correct_syntax
    /\ require_correct_syntax => state = FINISHED /\ result = SYNTAX_ERROR

\* a resume of the strict empty machine was tried and refused
C3_Witness ==
  /\ Len(code) = 0 /\ require_correct_syntax
  /\ last_call = "input" /\ raised = "ProgramFinishedError"
  /\ state = FINISHED /\ result = SYNTAX_ERROR

(* C4 as stated: under strict validity a malformed program gives a machine
   that is Finished(SyntaxError) with EMPTY memory and empty action buffer. *)
C4_MalformedEmptyMemory ==
  (require_correct_syntax /\ Malformed) =>
    /\ state = FINISHED /\ result = SYNTAX_ERROR
    /\ cells = <<>> /\ action_stack = <<>>

(* C4 amended: under strict validity a malformed program gives, after
   construction and after every init(), without an exception, a machine that
   is Finished(SyntaxError) with the memory at its initial value ([0] or the
   caller's initial memory), pointers and step counter 0 and an empty action
   buffer. *)
C4_MalformedStartsFinished ==
  (require_correct_syntax /\ Malformed) =>
    /\ ~is_valid
    /\ state = FINISHED /\ result = SYNTAX_ERROR
    /\ cells = initial_cells /\ action_stack = <<>>
    /\ codeptr = 0 /\ cellptr = 0 /\ steps = 0
    /\ last_call \in {"construct", "init"} => raised = None

\* "[+" re-initialized
C4_Witness ==
  /\ code = <<"[", "+">> /\ require_correct_syntax
  /\ last_call = "init" /\ raised = None
  /\ state = FINISHED /\ result = SYNTAX_ERROR /\ cells = <<0>>

(* C5: step(), execute() and input() on a Finished machine raise
   ProgramFinishedError carrying the machine's result and change no field of
   the machine; whenever that error is the outcome of a call, the machine is
   Finished and the details are its result. *)
C5_ResumeFinishedRaises ==
  /\ [](raised = "ProgramFinishedError" =>
          state = FINISHED /\ details = result /\ details # None /\ pc = "idle")
  /\ [][(state = FINISHED /\ pc = "idle" /\
         (StepCall \/ ExecuteCall \/ \E value \in Observations : InputCall(value)))
        => (/\ raised' = "ProgramFinishedError"
            /\ details' = result
            /\ pc' = "idle"
            /\ UNCHANGED machine)]_vars

\* execute() on a machine that was killed
C5_Witness ==
  /\ last_call = "execute" /\ raised = "ProgramFinishedError"
  /\ details = KILLED /\ state = FINISHED /\ result = KILLED

(* C6: with a step cap the counter never exceeds it; every step that changes
   memory (the cells a debug snapshot's read adds apart), a pointer or the
   action buffer counts one (the cyclic wrap apart),
   and the counter falls only to 0, by input() or init(); a step taken with
   the counter at the cap sets Finished(StepLimit) and changes nothing else. *)
C6_StepCap ==
  /\ [](max_steps # NoSteps => steps <= max_steps)
  /\ [][(state \in {NOT_STARTED, EXECUTING} /\ step_limit_reached /\ StepTaken)
        => (/\ state' = FINISHED /\ result' = STEP_LIMIT
            /\ UNCHANGED <<cells, cellptr, codeptr, action_stack, steps>>)]_vars
  /\ [][((cells' \notin {cells, traced(snapshot).cells} \/ cellptr' # cellptr
             \/ action_stack' # action_stack
             \/ (codeptr' # codeptr /\ codeptr' # -1)) /\ StepTaken)
        => (steps' = steps + 1 /\ ~step_limit_reached)]_vars
  /\ [][steps' < steps => (steps' = 0 /\ last_call' \in {"input", "init"})]_vars

\* a loop stopped by the cap in the middle of the program
C6_Witness ==
  /\ max_steps # NoSteps /\ steps = max_steps
  /\ state = FINISHED /\ result = STEP_LIMIT
  /\ codeptr < Len(code)
  /\ last_call = "execute"

(* C7 as stated: without cyclic mode, a step taken with the instruction
   pointer at the end of the program gives Finished(Success). *)
C7_EndGivesSuccess ==
  [][(~cycle /\ state = EXECUTING /\ codeptr = Len(code) /\ StepTaken)
     => (state' = FINISHED /\ result' = SUCCESS)]_vars

(* C7 amended: without cyclic mode, a step taken with the instruction pointer
   at the end of the program gives Finished(Success) when the step counter is
   below the cap (or there is no cap), and Finished(StepLimit) when the
   counter has reached the cap. *)
C7_EndGivesSuccessBelowCap ==
  [][(~cycle /\ state \in {NOT_STARTED, EXECUTING} /\ codeptr = Len(code) /\ StepTaken)
     => (/\ state' = FINISHED
         /\ result' = IF step_limit_reached THEN STEP_LIMIT ELSE SUCCESS
         /\ UNCHANGED <<cells, cellptr, codeptr, action_stack, steps>>)]_vars

\* a program run to its end below the cap
C7_Witness ==
  /\ ~cycle /\ Len(code) > 0 /\ codeptr = Len(code)
  /\ max_steps # NoSteps /\ steps < max_steps
  /\ state = FINISHED /\ result = SUCCESS
  /\ last_call = "execute"

(* C8 as stated: in cyclic mode, a step taken with the instruction pointer at
   the end of the program gives AwaitingInput, without counting a step. *)
C8_EndWraps ==
  [][(cycle /\ state = EXECUTING /\ codeptr = Len(code) /\ StepTaken)
     => (state' = AWAITING_INPUT /\ steps' = steps)]_vars

(* C8 amended: in cyclic mode, a step taken with the instruction pointer at
   the end of the program and the step counter below the cap gives
   AwaitingInput with the pointer just before the start and no step counted
   (with the counter at the cap it gives Finished(StepLimit)); the input
   accepted next resumes at position 0 with the counter 0, on every pass. *)
C8_EndWrapsBelowCap ==
  /\ [][(cycle /\ state \in {NOT_STARTED, EXECUTING} /\ codeptr = Len(code) /\ StepTaken)
        => IF step_limit_reached
           THEN state' = FINISHED /\ result' = STEP_LIMIT
           ELSE /\ state' = AWAITING_INPUT /\ result' = None
                /\ codeptr' = -1 /\ steps' = steps
                /\ cells' = traced(snapshot).cells
                /\ UNCHANGED <<cellptr, action_stack>>]_vars
  /\ [][(codeptr = -1 /\ InputAccepted)
        => (state' = EXECUTING /\ codeptr' = 0 /\ steps' = 0)]_vars
  /\ [](codeptr = -1 => cycle /\ state \in {AWAITING_INPUT, FINISHED})

\* "+>" at the end of its second pass
C8_Witness ==
  /\ cycle /\ code = <<"+", ">">>
  /\ state = AWAITING_INPUT /\ codeptr = -1
  /\ cellptr = 2

(* C9: after an input() that returns normally the machine is Executing, the
   step counter is 0 and the instruction pointer is 0 or one past a ','. *)
C9_InputResumesPastComma ==
  (last_call = "input" /\ pc = "idle" /\ raised = None) =>
    /\ state = EXECUTING
    /\ steps = 0
    /\ \/ codeptr = 0
       \/ codeptr >= 1 /\ codeptr <= Len(code) /\ code[codeptr] = ","

(* C10: done() on a machine that is not Finished gives Finished(Killed); on a
   Finished machine it keeps state and result; it never raises and never
   changes memory, pointers, step counter or action buffer. *)
C10_DoneKillsOnce ==
  /\ [][done => (/\ state # FINISHED => state' = FINISHED /\ result' = KILLED
                 /\ state = FINISHED => state' = FINISHED /\ result' = result
                 /\ raised' = None
                 /\ UNCHANGED <<cells, cellptr, codeptr, steps, action_stack>>)]_vars
  /\ [](last_call = "done" => state = FINISHED /\ result # None /\ pc = "idle")

\* done() on a machine that had finished with Success by itself
C10_Witness ==
  /\ last_call = "done"
  /\ state = FINISHED /\ result = SUCCESS
  /\ codeptr = Len(code) /\ Len(code) > 0

-----------------------------------------------------------------------------
\* step() is about to run the command c of the program
Executes(c) ==
  /\ state \in {NOT_STARTED, EXECUTING}
  /\ ~step_limit_reached
  /\ codeptr # Len(code) /\ fetchable
  /\ fetch = c
  /\ StepTaken

\* input() stores the observation value (lines 478-484)
Accepts(value) ==
  \/ state \in {NOT_STARTED, AWAITING_INPUT} /\ InputCall(value)
  \/ state = AWAITING_INPUT /\ inp = value /\ InputLoop

Max(a, b) == IF a >= b THEN a ELSE b

\* the commands that call read()
ReadCommands == {"^", "+", "-", "~", "[", "]", ".", "!"}

(* C11 as stated: an input of n values is stored in cells cellptr..cellptr+n-1
   and advances cellptr by n. *)
C11_SequenceWriteAdvances ==
  [][\A value \in Observations :
       Accepts(value) =>
         /\ \A i \in 1..Len(value) : cells'[cellptr + i] = value[i]
         /\ cellptr' = cellptr + Len(value)]_vars

(* C11 amended: an input of n values is stored in cells cellptr..cellptr+n-1,
   the memory is extended (with the null value) to cover them, every other
   cell keeps its value, and cellptr is left unchanged, at the first written
   cell. *)
C11_SequenceWriteKeepsPointer ==
  [][\A value \in Observations :
       Accepts(value) =>
         /\ cellptr' = cellptr
         /\ Len(cells') = Max(Len(cells), cellptr + Len(value))
         /\ \A i \in 1..Len(value) : cells'[cellptr + i] = value[i]
         /\ \A i \in 1..Len(cells') :
              (i <= cellptr \/ i > cellptr + Len(value)) =>
                cells'[i] = IF i <= Len(cells) THEN cells[i] ELSE null_value]_vars

\* "+>" in cyclic mode after its first pass: <<2, 1>> written from cell 1 on
C11_Witness ==
  /\ code = <<"+", ">">> /\ cycle
  /\ last_call = "input" /\ pc = "idle" /\ raised = None
  /\ cellptr = 1 /\ cells = <<1, 2, 1>>
  /\ codeptr = 0 /\ steps = 0

(* C12: a read at a cellptr at or beyond the end of the memory does not fail:
   the memory is extended with the null value up to cellptr, the read returns
   the null value and the cells that existed keep their values; a command
   that reads leaves the memory extended; and the memory never gets shorter
   except by init(). *)
C12_ReadGrowsMemory ==
  /\ [](LET grown == cells_after_read(cells, cellptr)
        IN /\ cellptr >= 0
           /\ Len(grown) = Max(Len(cells), cellptr + 1)
           /\ \A i \in 1..Len(cells) : grown[i] = cells[i]
           /\ \A i \in (Len(cells) + 1)..Len(grown) : grown[i] = null_value
           /\ cellptr >= Len(cells) => read(cells, cellptr) = null_value
           /\ cellptr < Len(cells) => read(cells, cellptr) = cells[cellptr + 1])
  /\ [][\A c \in ReadCommands :
          Executes(c) =>
            /\ raised' = None
            /\ Len(cells') = Max(Len(cells), cellptr + 1)
            /\ \A i \in 1..Len(cells') :
                 i # cellptr + 1 =>
                   cells'[i] = IF i <= Len(cells) THEN cells[i] ELSE null_value
            /\ (c = "!" /\ cellptr >= Len(cells)) =>
                 action_stack' = Append(action_stack, null_value)]_vars
  /\ [][Len(cells') < Len(cells) => init]_vars

\* ">!" with null value 1: the output read a cell that did not exist
C12_Witness ==
  /\ code = <<">", "!">> /\ null_value = 1 /\ init_memory = <<>>
  /\ cells = <<0, 1>> /\ cellptr = 1
  /\ action_stack = <<1>>

(* C13: '^' leaves cellptr unchanged when the current cell is negative and
   sets it to the current cell's value otherwise; '<' stops at 0; cellptr is
   never negative. *)
C13_PointerNeverNegative ==
  /\ [](cellptr >= 0)
  /\ [][Executes("^") =>
          cellptr' = IF read(cells, cellptr) >= 0
                     THEN read(cells, cellptr) ELSE cellptr]_vars
  /\ [][Executes("<") => cellptr' = Max(cellptr - 1, 0)]_vars

\* "-^~^" after its first '^', taken on the value -1
C13_Witness ==
  /\ code = <<"-", "^", "~", "^">> /\ init_memory = <<>>
  /\ codeptr = 2 /\ steps = 2
  /\ cells = <<-1>> /\ cellptr = 0

\* the number of tokens one action of the space takes
SpaceSize ==
  CASE action_space.type = "Discrete" -> 1
    [] action_space.type = "MultiDiscrete" -> Len(action_space.nvec)
    [] action_space.type = "MultiBinary" -> action_space.n
    [] action_space.type = "Box" -> Len(action_space.low)

\* the default action the sampler was configured with
ConfiguredDefault ==
  IF default_action # NoAction THEN default_action
  ELSE IF action_space.type = "Discrete" THEN number(0)
  ELSE array(zeros(SpaceSize))

\* the last SpaceSize tokens of the buffer, oldest first
LastTokens == [i \in 1..SpaceSize |-> action_stack[Len(action_stack) - SpaceSize + i]]

(* C14: when the output buffer holds fewer tokens than one action takes,   *)
(* act() returns the configured default action and leaves the buffer as    *)
(* it is, whatever outputs and act() calls came before.                    *)
C14_ShortBufferGivesDefault ==
  [][(act /\ Len(action_stack) < SpaceSize) =>
       /\ action' = ConfiguredDefault
       /\ action_stack' = action_stack]_vars

C14_Witness ==
  /\ code = <<"-", "!">> /\ action_space = MultiDiscrete(<<1, 2>>)
  /\ last_call = "act" /\ action_stack = <<-1>> /\ steps > 0
  /\ action = array(<<0, 0>>)

(* C15: when the buffer holds at least as many tokens as one action takes, *)
(* act() removes exactly the last tokens, uses them in buffer order (the   *)
(* i-th of them for the i-th dimension, when an action is returned) and    *)
(* leaves the tokens before them.                                          *)
C15_TakesLastTokensInOrder ==
  [][(act /\ Len(action_stack) >= SpaceSize) =>
       /\ action_stack' = SubSeq(action_stack, 1, Len(action_stack) - SpaceSize)
       /\ raised' = None => Len(action'.value) = SpaceSize
       /\ \A i \in 1..SpaceSize :
            raised' = None =>
            LET alone == divided(sampler,
                           scaled(sampler, [j \in 1..SpaceSize |-> LastTokens[i]]))[i]
            IN action'.value[i] =
                 IF sampler.just_a_number THEN Q(int(alone), 1) ELSE alone]_vars

(* C16: for a Discrete(n) space the number of steps is n and the action    *)
(* is the token modulo n, one of 0..n-1, for every token (negative ones    *)
(* and ones of n or more included); token 3 with n = 4 gives action 3.     *)
C16_DiscreteIsTokenModN ==
  /\ [](action_space.type = "Discrete" =>
          sampler.discretization_steps = action_space.n)
  /\ [][(act /\ action_space.type = "Discrete" /\ action_stack # <<>>) =>
          /\ action' = number(action_stack[Len(action_stack)] % action_space.n)
          /\ action'.value[1].num \in 0..(action_space.n - 1)]_vars

C16_Witness ==
  /\ code = <<"3", "!">> /\ action_space = Discrete(4)
  /\ last_call = "act" /\ cells = <<3>> /\ action_stack = <<>>
  /\ action = number(3)

(* C17: in a dimension bounded on both sides the sampled number lies in    *)
(* [lower, upper + 1), for any lower bound.                                *)
C17_BothBoundsInRange ==
  [][(act /\ Len(action_stack) >= SpaceSize /\ raised' = None) =>
       \A i \in 1..SpaceSize :
         (sampler.bounded_below[i] /\ sampler.bounded_above[i]) =>
           /\ ~less(action'.value[i], sampler.lower_bound[i])
           /\ less(action'.value[i], sampler.upper_bound[i] + 1)]_vars

(* C18: in a dimension with one bound the sampled number is token / steps, *)
(* reflected across the bound when it falls on the wrong side: it is never *)
(* below a lower-only bound and never above an upper-only bound.           *)
C18_OneSidedStaysInside ==
  [][(act /\ Len(action_stack) >= SpaceSize /\ raised' = None) =>
       \A i \in 1..SpaceSize :
         LET raw == Q(LastTokens[i], sampler.discretization_steps) IN
         /\ (sampler.bounded_below[i] /\ ~sampler.bounded_above[i]) =>
              /\ ~less(action'.value[i], sampler.lower_bound[i])
              /\ action'.value[i] =
                   IF less(raw, sampler.lower_bound[i])
                   THEN reflected(sampler.lower_bound[i], raw) ELSE raw
         /\ (~sampler.bounded_below[i] /\ sampler.bounded_above[i]) =>
              /\ ~greater(action'.value[i], sampler.upper_bound[i])
              /\ action'.value[i] =
                   IF greater(raw, sampler.upper_bound[i])
                   THEN reflected(sampler.upper_bound[i], raw) ELSE raw]_vars

(* C19: for a program text over the configured alphabet, decoding the      *)
(* encoded text gives the text back; every symbol has exactly one integer  *)
(* code and every code its symbol; the sentinel '_' has code 0 and no      *)
(* command has code 0.                                                     *)
C19_EncodingRoundTrip ==
  LET table == BF_INT_TO_CHAR(allowed_commands)
      dict == BF_CHAR_TO_INT(allowed_commands)
      symbols == {BF_EOS_CHAR} \cup Range(allowed_commands)
      codes == 0..Len(allowed_commands)
  IN /\ lang_pc # "text" =>
          /\ Len(code_indices) = Len(program)
          /\ \A k \in DOMAIN program :
               code_indices[k] \in codes /\ table[code_indices[k] + 1] = program[k]
     /\ lang_pc \notin {"text", "encoded"} => decoded = program
     /\ \A c \in symbols :
          /\ Cardinality({i \in codes : table[i + 1] = c}) = 1
          /\ dict[c] \in codes /\ table[dict[c] + 1] = c
          /\ bf_int_to_char(allowed_commands, bf_char_to_int(allowed_commands, <<c>>)) = <<c>>
     /\ \A i \in codes : dict[table[i + 1]] = i
     /\ dict[BF_EOS_CHAR] = 0 /\ table[1] = BF_EOS_CHAR
     /\ \A c \in Range(allowed_commands) : dict[c] # 0

C19_Witness ==
  /\ allowed_commands = DEFAULT_CMD_SET /\ lang_pc = "decoded"
  /\ program = <<"_", "+", "a", "1">>
  /\ code_indices = <<0, 5, 18, 14>>
  /\ decoded = <<"_", "+", "a", "1">>

(* C20: prune ends on every text; a pass that changes the text makes it    *)
(* shorter; the text returned is a fixed point of prune_step, so pruning   *)
(* it again returns it, and it has none of '+-', '-+', '><', '<>'.         *)
C20_PruneReachesFixedPoint ==
  /\ (lang_pc = "pruning") ~> (lang_pc = "pruned")
  /\ [][PruneLoop => (new_code' # new_code => Len(new_code') < Len(new_code))]_vars
  /\ [](lang_pc = "pruned" =>
          /\ prune_step(pruned) = pruned
          /\ pruned = prune(decoded) /\ prune(pruned) = pruned
          /\ \A i \in 1..(Len(pruned) - 1) :
               <<pruned[i], pruned[i + 1]>> \notin
                 {<<"+", "-">>, <<"-", "+">>, <<">", "<">>, <<"<", ">">>})

C20_Witness ==
  /\ lang_pc = "pruned" /\ program = <<"+", ">", "<", "-">>
  /\ old_code = <<>> /\ new_code = <<>> /\ pruned = <<>>

\* the program has no bracket, no input command and no random draw
StraightLine == \A i \in DOMAIN code : code[i] \notin {"[", "]", ",", "@"}

\* memory, cell pointer and action buffer after the first k commands of a
\* straight-line program have been executed once each, in order, from the
\* initial memory
RECURSIVE Executed(_, _)
Executed(p, k) ==
  IF k = 0
  THEN [cellptr |-> 0, cells |-> initial_cells, codeptr |-> 0, action_stack |-> <<>>]
  ELSE [effect(traced([Executed(p, k - 1) EXCEPT !.codeptr = k - 1]), p[k], 0)
          EXCEPT !.codeptr = k]

RunTo(k) == Executed(code, k)

\* the output commands among the first k commands
Outputs(k) == Cardinality({i \in 1..k : code[i] \in {".", "!"}})

\* no input() has been accepted and act() has consumed no token since the
\* machine was initialized: every command run counted a step, every output
\* is still in the buffer
OnlyStepped ==
  /\ ~cycle /\ codeptr = steps /\ codeptr <= Len(code)
  /\ Len(action_stack) = Outputs(codeptr)

(* C21: "1>2!" run to completion by execute(), without cyclic mode, input  *)
(* or a cap that is reached, ends Finished(Success) with memory [1, 2] and *)
(* action buffer [2]; a straight-line program of n commands, n below the   *)
(* cap, runs each command once, in order, and then finishes with Success.  *)
C21_StraightLineRunsOnce ==
  /\ []((code = <<"1", ">", "2", "!">> /\ OnlyStepped /\ max_steps = NoSteps
         /\ last_call = "execute" /\ pc = "idle" /\ raised = None) =>
          /\ state = FINISHED /\ result = SUCCESS
          /\ cells = <<1, 2>> /\ action_stack = <<2>>)
  /\ []((StraightLine /\ OnlyStepped) =>
          /\ cells = RunTo(codeptr).cells
          /\ cellptr = RunTo(codeptr).cellptr
          /\ action_stack = RunTo(codeptr).action_stack)
  /\ []((StraightLine /\ OnlyStepped /\ is_valid /\ raised = None
         /\ (max_steps = NoSteps \/ Len(code) < max_steps)
         /\ last_call = "execute" /\ pc = "idle") =>
          /\ state = FINISHED /\ result = SUCCESS /\ codeptr = Len(code))
  /\ [][(StraightLine /\ OnlyStepped /\ state \in {NOT_STARTED, EXECUTING}
         /\ ~step_limit_reached /\ StepTaken) =>
          IF codeptr < Len(code)
          THEN /\ codeptr' = codeptr + 1 /\ steps' = steps + 1
               /\ state' = EXECUTING /\ result' = result
          ELSE /\ state' = FINISHED /\ result' = SUCCESS
               /\ UNCHANGED <<codeptr, cellptr, steps, cells, action_stack>>]_vars

C21_Witness ==
  /\ code = <<"1", ">", "2", "!">> /\ ~cycle /\ max_steps = NoSteps
  /\ last_call = "execute" /\ pc = "idle" /\ raised = None
  /\ state = FINISHED /\ result = SUCCESS
  /\ codeptr = 4 /\ steps = 4 /\ cellptr = 1
  /\ cells = <<1, 2>> /\ action_stack = <<2>>

-----------------------------------------------------------------------------
(* C23: init() puts the machine back into the state the constructor left   *)
(* it in: both pointers and the step counter 0, the memory equal to the    *)
(* caller's initial memory (or one cell 0), the action buffer empty, the   *)
(* state NotStarted without a result when the program is valid and         *)
(* Finished with SyntaxError when it is not; no call changes the program,  *)
(* the initial memory or the jump table.                                   *)
C23_InitRestoresFreshState ==
  /\ [](last_call \in {"construct", "init"} =>
          /\ codeptr = 0 /\ cellptr = 0 /\ steps = 0
          /\ cells = (IF init_memory # <<>> THEN init_memory ELSE <<0>>)
          /\ action_stack = <<>>
          /\ state = (IF is_valid THEN NOT_STARTED ELSE FINISHED)
          /\ result = (IF is_valid THEN None ELSE SYNTAX_ERROR)
          /\ pc = "idle" /\ raised = None)
  /\ [][(last_call' = "init" /\ init) =>
          /\ codeptr' = 0 /\ cellptr' = 0 /\ steps' = 0
          /\ cells' = (IF init_memory # <<>> THEN init_memory ELSE <<0>>)
          /\ action_stack' = <<>>]_vars
  /\ [][UNCHANGED <<code, init_memory, bracemap, is_valid>>]_vars

C23_Witness ==
  /\ last_call = "init" /\ code = <<"+", ">">>
  /\ init_memory = <<1>> /\ cells = <<1>>
  /\ codeptr = 0 /\ cellptr = 0 /\ steps = 0
  /\ state = NOT_STARTED /\ result = None

-----------------------------------------------------------------------------
\* a resume of a machine that is idle: step(), execute() or input()
Resume ==
  StepCall \/ ExecuteCall \/ \E value \in Observations : InputCall(value)

\* the machine of an invalid program: Finished with SyntaxError
Rejected == ~is_valid /\ state = FINISHED /\ result = SYNTAX_ERROR

(* C24, as stated: step(), execute() and input() on the machine of an      *)
(* invalid program under strict validity complete without an exception and *)
(* change no field of the machine.                                         *)
C24_ResumeInvalidIsNoOp ==
  [][(Rejected /\ pc = "idle" /\ Resume) =>
       (raised' = None /\ UNCHANGED machine)]_vars

(* C24: step(), execute() and input() on the machine of an invalid program *)
(* under strict validity raise ProgramFinishedError carrying SyntaxError,  *)
(* return at once and change no field of the machine.                      *)
C24_ResumeInvalidRaises ==
  /\ [](~is_valid => require_correct_syntax /\ Rejected)
  /\ [][(Rejected /\ pc = "idle" /\ Resume) =>
          /\ raised' = "ProgramFinishedError" /\ details' = SYNTAX_ERROR
          /\ pc' = "idle"
          /\ UNCHANGED machine]_vars

\* input() on the machine of "[+"
C24_Witness ==
  /\ code = <<"[", "+">> /\ require_correct_syntax /\ ~is_valid
  /\ last_call = "input" /\ pc = "idle"
  /\ raised = "ProgramFinishedError" /\ details = SYNTAX_ERROR
  /\ state = FINISHED /\ result = SYNTAX_ERROR
  /\ codeptr = 0 /\ cellptr = 0 /\ steps = 0 /\ cells = <<0>> /\ action_stack = <<>>

-----------------------------------------------------------------------------
(* C25: the machine has a result exactly when its state is Finished; a     *)
(* result that is set stays the same until init(): step(), execute(),      *)
(* input(), act() and done() never replace it, and a Finished machine      *)
(* leaves only by init().                                                  *)
C25_ResultIffFinished ==
  /\ [](result # None <=> state = FINISHED)
  /\ [](result \in {None, SUCCESS, STEP_LIMIT, SYNTAX_ERROR, KILLED})
  /\ [][(result # None /\ last_call' # "init") =>
          (result' = result /\ state' = FINISHED)]_vars
  /\ [][(result # None /\ last_call' = "init") =>
          (result' \in {None, SYNTAX_ERROR} /\ (result' = None <=> is_valid))]_vars

\* done() on a machine that finished at the step cap
C25_Witness ==
  /\ last_call = "done" /\ state = FINISHED /\ result = STEP_LIMIT
  /\ steps = max_steps /\ raised = None

-----------------------------------------------------------------------------
(* C26: in a program whose brackets all match, '[' on a cell <= 0 goes on  *)
(* right after its ']' and on a cell > 0 goes on with the next             *)
(* instruction; ']' on a cell > 0 goes on right after its '[' and on a     *)
(* cell <= 0 goes on with the next instruction; either way the step        *)
(* counts one and moves neither the cell pointer nor the action buffer,    *)
(* and the cells that exist keep their values.                             *)
C26_LoopSemantics ==
  /\ [][(Executes("[") /\ ~HasUnmatched) =>
          /\ IF read(cells, cellptr) <= 0
             THEN \E q \in BracketPositions :
                    Partner(codeptr, q) /\ codeptr' = q + 1
             ELSE codeptr' = codeptr + 1
          /\ steps' = steps + 1 /\ state' = EXECUTING /\ raised' = None
          /\ cellptr' = cellptr /\ action_stack' = action_stack
          /\ cells' = cells_after_read(cells, cellptr)]_vars
  /\ [][(Executes("]") /\ ~HasUnmatched) =>
          /\ IF read(cells, cellptr) > 0
             THEN \E p \in BracketPositions :
                    Partner(p, codeptr) /\ codeptr' = p + 1
             ELSE codeptr' = codeptr + 1
          /\ steps' = steps + 1 /\ state' = EXECUTING /\ raised' = None
          /\ cellptr' = cellptr /\ action_stack' = action_stack
          /\ cells' = cells_after_read(cells, cellptr)]_vars

\* "+[]": the ']' has sent the machine back behind the '['
C26_Witness ==
  /\ code = <<"+", "[", "]">> /\ ~HasUnmatched
  /\ last_call = "step" /\ raised = None /\ state = EXECUTING
  /\ codeptr = 2 /\ steps = 3 /\ cells = <<1>> /\ cellptr = 0

-----------------------------------------------------------------------------
(* C27: '.' puts the value of the current cell in front of the tokens of   *)
(* the action buffer and '!' puts it behind them, one token a step, the    *)
(* other tokens kept in their order; between two init() calls nothing else *)
(* but act() changes the buffer: no other instruction, no input(), no      *)
(* done(), no step that ends or suspends the run.                          *)
C27_BufferChangesByOutputOnly ==
  /\ [][Executes(".") =>
          action_stack' = <<read(cells, cellptr)>> \o action_stack]_vars
  /\ [][Executes("!") =>
          action_stack' = action_stack \o <<read(cells, cellptr)>>]_vars
  /\ [][(action_stack' # action_stack /\ last_call' \notin {"act", "init"}) =>
          (Executes(".") \/ Executes("!"))]_vars
  /\ [][(last_call' \in {"input", "done"} /\ (InputAccepted \/ done)) =>
          action_stack' = action_stack]_vars

\* "-.<" in cyclic mode, second round: the new token stands in front
C27_Witness ==
  /\ code = <<"-", ".", "<">> /\ cycle
  /\ state = EXECUTING /\ raised = None
  /\ codeptr = 2 /\ cells = <<0>> /\ action_stack = <<0, -1>>

-----------------------------------------------------------------------------
(* C30: when the program ends (Success, or StepLimit at the cap) while     *)
(* input() is still running the machine towards a ',', the same call       *)
(* raises ProgramFinishedError with that result and leaves the machine as  *)
(* the program's end left it: the observation is never written; an input() *)
(* that returns without an exception leaves the machine Executing, never   *)
(* Finished.                                                               *)
C30_InputOnFinishingProgramRaises ==
  /\ []((pc = "input" /\ state = FINISHED) => result \in {SUCCESS, STEP_LIMIT})
  /\ [][(pc = "input" /\ state = FINISHED) =>
          /\ raised' = "ProgramFinishedError" /\ details' = result
          /\ pc' = "idle" /\ last_call' = "input"
          /\ UNCHANGED machine]_vars
  /\ [][(pc = "input" /\ state = EXECUTING) =>
          \E r \in draws : step(r)]_vars
  /\ []((last_call = "input" /\ pc = "idle" /\ raised = None) =>
          state = EXECUTING /\ result = None)
  /\ []((last_call = "input" /\ pc = "idle" /\ state = FINISHED) =>
          raised = "ProgramFinishedError" /\ details = result)

\* "+" ended inside input(): the observation waits and is not written
C30_Witness ==
  /\ code = <<"+">> /\ ~cycle
  /\ pc = "input" /\ last_call = "input" /\ inp = <<2, 1>>
  /\ state = FINISHED /\ result = SUCCESS /\ raised = None
  /\ cells = <<1>> /\ codeptr = 1

-----------------------------------------------------------------------------
(* C29: with a step cap, a call of execute() or input() on a machine that  *)
(* is not Finished ends either suspended or finished: execute() leaves the *)
(* machine in AwaitingInput or Finished, input() either has reached        *)
(* AwaitingInput and returns after taking the observation, or ends on a    *)
(* Finished machine; a call that is still running has used at most         *)
(* max_steps instruction cycles since the last input.                      *)
C29_CallsEndSuspendedOrFinished ==
  /\ []((max_steps # NoSteps /\ pc = "idle" /\ last_call = "execute") =>
          state \in {AWAITING_INPUT, FINISHED})
  /\ []((max_steps # NoSteps /\ pc = "idle" /\ last_call = "input") =>
          \/ state = EXECUTING /\ raised = None /\ steps = 0
          \/ state = FINISHED)
  /\ []((max_steps # NoSteps /\ pc # "idle") => steps <= max_steps)

-----------------------------------------------------------------------------
\* what the step of a machine without tracing makes of the fields
untraced(r) == effect(snapshot, fetch, r)

(* C28: tracing changes nothing of the run: a step of a machine with       *)
(* debug=True leaves the pointers, the memory (values and length) and the  *)
(* action buffer as the same step of a machine with debug=False would      *)
(* leave them, the wrap of the cyclic mode and ',' leave the memory alone, *)
(* input() leaves the memory as its write leaves it; and a snapshot once   *)
(* in the trace stays as it was recorded, its action buffer included,      *)
(* until init() starts a new trace.                                        *)
C28_TracingLeavesExecutionAlone ==
  /\ [][(debug /\ state \in {NOT_STARTED, EXECUTING} /\ ~step_limit_reached
         /\ codeptr # Len(code) /\ fetchable /\ fetch # "," /\ StepTaken) =>
          \E r \in draws :
            /\ cells' = untraced(r).cells
            /\ cellptr' = untraced(r).cellptr
            /\ action_stack' = untraced(r).action_stack
            /\ codeptr' = untraced(r).codeptr + 1
            /\ state' = EXECUTING /\ result' = None]_vars
  /\ [][(debug /\ state \in {NOT_STARTED, EXECUTING} /\ ~step_limit_reached
         /\ (codeptr = Len(code) \/ (fetchable /\ fetch = ",")) /\ StepTaken) =>
          UNCHANGED <<cells, cellptr, action_stack>>]_vars
  /\ [][(debug /\ InputAccepted) =>
          \E value \in Observations : cells' = write(cells, cellptr, value)]_vars
  /\ [][(debug /\ last_call' # "init") =>
          \A i \in DOMAIN program_trace :
            i \in DOMAIN program_trace' /\ program_trace'[i] = program_trace[i]]_vars

-----------------------------------------------------------------------------
(* C31: the instruction pointer stays between -1 and the length of the     *)
(* program, it is -1 only while the machine awaits input, and a step that  *)
(* fetches a command fetches it at a position inside the program, so that  *)
(* the fetch never fails.                                                  *)
C31_PointerInsideProgram ==
  /\ [](-1 <= codeptr /\ codeptr <= Len(code))
  /\ [](codeptr = -1 => state = AWAITING_INPUT)
  /\ [][(state \in {NOT_STARTED, EXECUTING} /\ ~step_limit_reached
         /\ codeptr # Len(code) /\ StepTaken) =>
          (0 <= codeptr /\ codeptr < Len(code) /\ raised' # "IndexError")]_vars

-----------------------------------------------------------------------------
\* the smaller of two numbers
Min(a, b) == IF a <= b THEN a ELSE b

\* the machine has run its whole program, each command once
RanToEnd ==
  /\ StraightLine /\ OnlyStepped /\ ~debug
  /\ Range(code) \subseteq Range(DEFAULT_CMD_SET)
  /\ state = FINISHED /\ result = SUCCESS /\ codeptr = Len(code)

(* C32: a program without brackets, ',' and '@' that has run to its end    *)
(* leaves the cell pointer, the action buffer and every cell both runs     *)
(* have as the run of the pruned program leaves them, from the same        *)
(* initial memory.                                                         *)
C32_PruningKeepsBehaviour ==
  RanToEnd =>
    LET after == Executed(prune(code), Len(prune(code)))
    IN /\ cellptr = after.cellptr
       /\ action_stack = after.action_stack
       /\ \A i \in 1..Min(Len(cells), Len(after.cells)) : cells[i] = after.cells[i]

-----------------------------------------------------------------------------
(* The episode protocol of attend_gym() *)

\* act() is called
ActCalled == last_call # "act" /\ last_call' = "act"

\* a call of input() begins
InputCalled == pc = "idle" /\ pc' \in {"idle", "input"} /\ last_call' = "input"

\* env.step() is called
EnvStepped == gym_pc = "step" /\ gym_pc' # "step"

\* attend_gym() returns
Returns == gym_pc = "done" /\ gym_pc' = "returned"

\* the episode initializes the machine before anything else
InitializedFirst ==
  /\ [][gym_pc = "none" /\ gym_pc' # "none" =>
          (/\ last_call' = "init"
           /\ state' = fresh.state /\ result' = fresh.result
           /\ codeptr' = 0 /\ cellptr' = 0 /\ steps' = 0
           /\ cells' = initial_cells /\ action_stack' = <<>>)]_vars
  /\ [](gym_pc = "reset" => last_call = "init")

\* in an iteration input() comes first, act() follows an input() that
\* returned, and env.step() follows act()
InputThenActThenStep ==
  /\ [][gym_pc # "none" /\ InputCalled =>
          (last_call \in {"init", "act"} /\ inp' \in {<<>>, observation})]_vars
  /\ [][ActCalled =>
          (last_call = "input" /\ pc = "idle" /\ raised = None
           /\ state = EXECUTING)]_vars
  /\ [][EnvStepped => (last_call = "act" /\ pc = "idle")]_vars

\* an ActionError raised by input() ends the loop and is not propagated
ActionErrorEndsLoop ==
  /\ [][(gym_pc \in {"loop", "input"} /\ raised' \in ActionErrors) =>
          gym_pc' = "done"]_vars
  /\ [](gym_pc = "raised" => raised \notin ActionErrors)

\* on return the machine is Finished, by itself or killed
ReturnsFinished ==
  /\ [][Returns =>
          (/\ state' = FINISHED
           /\ result' = IF state = FINISHED THEN result ELSE KILLED
           /\ state = FINISHED => result \in {SUCCESS, STEP_LIMIT, SYNTAX_ERROR})]_vars
  /\ [](gym_pc = "returned" => state = FINISHED)

\* C33 as stated: an episode initializes the machine first, calls input()
\* before act() and act() before env.step() in every iteration, runs at most
\* max_reps iterations, ends its loop on an ActionError without propagating
\* it, and returns with the machine Finished, its own result kept or Killed.
C33_EpisodeOfAtMostMaxReps ==
  /\ InitializedFirst
  /\ InputThenActThenStep
  /\ [](reps <= max_reps)
  /\ ActionErrorEndsLoop
  /\ ReturnsFinished

\* C33, amended: the same protocol, where at most max_reps iterations run
\* when max_reps is a positive number; a max_reps of 0 sets no limit.
C33_EpisodeProtocol ==
  /\ InitializedFirst
  /\ InputThenActThenStep
  /\ [](max_reps > 0 => reps <= max_reps)
  /\ ActionErrorEndsLoop
  /\ ReturnsFinished

\* an episode whose second input() ran into the step cap has returned, the
\* machine keeping its StepLimit
C33_Witness ==
  /\ gym_pc = "returned" /\ max_reps = 2 /\ reps = 2
  /\ state = FINISHED /\ result = STEP_LIMIT /\ last_call = "done"

=============================================================================
